---- MODULE Spec2Model ----
(***************************************************************************)
(* The LangGraph cold-email workflow of app/chains.py (ColdEmailGraph),    *)
(* the portfolio index of app/portfolio.py that retrieve_links queries,    *)
(* and the part of app/main.py that invokes the compiled graph and shows   *)
(* its result.                                                             *)
(*                                                                         *)
(* A Python dict is a function whose DOMAIN is its key set; {**d, k: v}    *)
(* is Put(d, k, v).  A float score kept/total is the exact fraction        *)
(* [num |-> kept, den |-> total] (IEEE division is correctly rounded, so   *)
(* k/n < 0.8 in Python exactly when 10*k < 8*n).  Python's None is the     *)
(* value None.  main.py is modelled as if its module-level `return`        *)
(* statements stopped the script run.  The graph is followed exactly as    *)
(* build_graph wires it: a node's return value is the next node's state,   *)
(* and nothing but the edges decides what runs next (no step limit of the  *)
(* graph engine is part of the model).                                     *)
(***************************************************************************)
EXTENDS Integers, Sequences, FiniteSets, TLC

VARIABLES
    pc,          \* where the run is: a step of main, or the graph node to run next
    state,       \* the state dict LangGraph hands to the next node
    collection,  \* the persistent "portfolio" collection: sequence of entries
    outcome,     \* what main has shown to the user
    exc,         \* the exception that left the graph, "none" if none did
    last,        \* history: the node that ran last
    resp,        \* history: what the extraction model call of that node returned
    scraped,     \* main's scraped_text
    visits,      \* history: how often each node has run (MaxVisits: that often or more)
    calls,       \* history: the model calls that node made, each by its input
    queries,     \* history: per job, the collection.query calls that node made
    input_mutated, \* history: that node changed the state object it was given
    loads        \* history: the calls of load_portfolio made so far

vars == <<pc, state, collection, outcome, exc, last, resp,
          scraped, visits, calls, queries, input_mutated, loads>>

\* Bounds of the model.
MaxJobs == 2        \* most elements in one extraction response
MaxPortfolio == 3   \* rows of the portfolio CSV
MaxVisits == 2      \* visits of one node that are told apart
LongLen == 5        \* length of the long lists the model may return
MaxLoads == 3       \* calls of load_portfolio on one collection

----------------------------------------------------------------------------
\* Python values

None == "<None>"

Put(d, k, v) == (k :> v) @@ d

\* d.get(k, default)
Get(d, k, default) == IF k \in DOMAIN d THEN d[k] ELSE default

Min(a, b) == IF a <= b THEN a ELSE b

Reverse(s) == [i \in 1..Len(s) |-> s[Len(s) + 1 - i]]

\* [f(x) for x in s]
RECURSIVE SelectJobs_newest_first(_, _)
SelectJobs_newest_first(s, keep) ==
    IF s = <<>> THEN <<>>
    ELSE IF keep[1] THEN SelectJobs_newest_first(Tail(s), Tail(keep)) \o <<Head(s)>>
    ELSE SelectJobs_newest_first(Tail(s), Tail(keep))

RECURSIVE SelectJobs(_, _)
SelectJobs(s, keep) ==
    IF s = <<>> THEN <<>>
    ELSE IF keep[1] THEN <<Head(s)>> \o SelectJobs(Tail(s), Tail(keep))
         ELSE SelectJobs(Tail(s), Tail(keep))

\* a float score as an exact fraction
Score(kept, total) == [num |-> kept, den |-> total]
ZeroScore == [num |-> 0, den |-> 1]
Less(a, b) == a.num * b.den < b.num * a.den

DEFAULT_COHERENCE_THRESHOLD == [num |-> 8, den |-> 10]
DEFAULT_RAG_SCORE_THRESHOLD == [num |-> 8, den |-> 10]
DEFAULT_QUERY_N_RESULTS == 2

----------------------------------------------------------------------------
\* What the extraction model call can return (res.content after
\* JsonOutputParser.parse), and JobPosting validation.

Missing == "<missing>"   \* the key is absent from the JSON object
BadType == "<badtype>"   \* the key holds a value that is not a string

\* A JSON object with the four keys (or some of them absent).
RawObject(role, experience, has_skills, skills, description) ==
    [kind |-> "object", role |-> role, experience |-> experience,
     has_skills |-> has_skills, skills |-> skills, description |-> description]

\* A JSON value that is not an object (a number, a string, null).
RawScalar ==
    [kind |-> "scalar", role |-> Missing, experience |-> Missing,
     has_skills |-> FALSE, skills |-> <<>>, description |-> Missing]

RawElems ==
    { RawObject("Engineer", "3y", TRUE, <<"Python">>, "Build APIs"),
      RawObject("Designer", "5y", TRUE, <<"SQL", "Python">>, "Design UIs"),
      RawObject("Analyst", "1y", FALSE, <<>>, "Analyse data"),
      RawObject("Manager", "3y", TRUE, <<"Python">>, Missing),
      RawObject("", "3y", TRUE, <<"SQL">>, "No title"),
      RawObject("Tester", "2y", TRUE, <<"SQL">>, ""),
      RawObject(Missing, "3y", TRUE, <<"Python">>, "No role key"),
      RawObject("Writer", BadType, TRUE, <<"Python">>, "Bad experience"),
      RawScalar }

SeqsUpTo(S, n) == UNION { [1..k -> S] : k \in 0..n }

\* Longer lists of objects, so that a score can fall on a threshold: k full
\* postings followed by postings that lack skills, or lack a description.
LongLists ==
    { [i \in 1..LongLen |->
          IF i <= k THEN RawObject("Engineer", "3y", TRUE, <<"Python">>, "Build APIs")
          ELSE other] :
        k \in 0..LongLen,
        other \in { RawObject("Analyst", "1y", FALSE, <<>>, "Analyse data"),
                    RawObject("Manager", "3y", TRUE, <<"Python">>, Missing) } }

\* The text the model returned, as JsonOutputParser sees it: not JSON, one
\* JSON value (items holds it alone), or a JSON list of values.
Responses ==
    { [parse_ok |-> FALSE, is_list |-> FALSE, items |-> <<>>] }
    \cup { [parse_ok |-> TRUE, is_list |-> FALSE, items |-> <<e>>] : e \in RawElems }
    \cup { [parse_ok |-> TRUE, is_list |-> TRUE, items |-> s] :
              s \in SeqsUpTo(RawElems, MaxJobs) \cup LongLists }

NoResp == [parse_ok |-> FALSE, is_list |-> FALSE, items |-> <<>>, called |-> FALSE]
Called(r) == [parse_ok |-> r.parse_ok, is_list |-> r.is_list, items |-> r.items, called |-> TRUE]

\* JobPosting(**job) accepts the object: role and experience are required str.
ValidJob(o) ==
    /\ o.kind = "object"
    /\ o.role \notin {Missing, BadType}
    /\ o.experience \notin {Missing, BadType}

\* JobPosting(**job).dict(): skills defaults to [], description to None.
JobPosting(o) ==
    [role |-> o.role, experience |-> o.experience,
     skills |-> IF o.has_skills THEN o.skills ELSE <<>>,
     description |-> IF o.description = Missing THEN None ELSE o.description]

\* jobs if isinstance(jobs, list) else [jobs]
AsList(r) == r.items

\* The exception the list comprehension of extract_jobs ends with: that of the
\* first element JobPosting(**job) rejects ("TypeError" for a non-mapping,
\* "ValidationError" for an object pydantic rejects), or "none".
FirstError(items) ==
    IF \A i \in 1..Len(items) : ValidJob(items[i]) THEN "none"
    ELSE LET i == CHOOSE j \in 1..Len(items) :
                    /\ ~ValidJob(items[j])
                    /\ \A k \in 1..(j - 1) : ValidJob(items[k])
         IN IF items[i].kind = "object" THEN "ValidationError" ELSE "TypeError"

\* extract_jobs that adds the new postings to the jobs already in the state
extract_jobs_merging(st, r) ==
    IF ~r.parse_ok
    THEN [raised |-> "none", state |-> Put(st, "jobs", <<>>)]
    ELSE LET items == AsList(r)
             err == FirstError(items)
         IN CASE err = "none" ->
                   [raised |-> "none",
                    state |-> Put(st, "jobs",
                        Get(st, "jobs", <<>>)
                            \o [i \in 1..Len(items) |-> JobPosting(items[i])])]
              [] err = "ValidationError" ->
                   [raised |-> "none", state |-> Put(st, "jobs", <<>>)]
              [] OTHER ->
                   [raised |-> err, state |-> st]

\* extract_jobs that drops the objects pydantic rejects and keeps the others
extract_jobs_keeps_valid(st, r) ==
    IF ~r.parse_ok
    THEN [raised |-> "none", state |-> Put(st, "jobs", <<>>)]
    ELSE LET items == AsList(r) IN
         IF \E i \in 1..Len(items) : items[i].kind # "object"
         THEN [raised |-> "TypeError", state |-> st]
         ELSE [raised |-> "none",
               state |-> Put(st, "jobs",
                   SelectJobs([i \in 1..Len(items) |-> JobPosting(items[i])],
                              [i \in 1..Len(items) |-> ValidJob(items[i])]))]

\* extract_jobs(state) for the model response r: the node's return value, or
\* the exception that leaves it.
extract_jobs(st, r) ==
    IF ~r.parse_ok
    THEN [raised |-> "none", state |-> Put(st, "jobs", <<>>)]
    ELSE LET items == AsList(r)
             err == FirstError(items)
         IN CASE err = "none" ->
                   [raised |-> "none",
                    state |-> Put(st, "jobs", [i \in 1..Len(items) |-> JobPosting(items[i])])]
              [] err = "ValidationError" ->
                   [raised |-> "none", state |-> Put(st, "jobs", <<>>)]
              [] OTHER ->
                   [raised |-> err, state |-> st]

----------------------------------------------------------------------------
\* The gates

\* job.get("role") or job.get("description")
Coherent_either(job) ==
    \/ Get(job, "role", None) \notin {None, ""}
    \/ Get(job, "description", None) \notin {None, ""}

\* job.get("role") and job.get("description")
Coherent(job) ==
    /\ Get(job, "role", None) \notin {None, ""}
    /\ Get(job, "description", None) \notin {None, ""}

\* check_coherence that looks at the role alone
check_coherence_role_only(st) ==
    LET jobs == Get(st, "jobs", <<>>) IN
    IF jobs = <<>>
    THEN Put(Put(st, "jobs", <<>>), "coherence_score", ZeroScore)
    ELSE LET coherent_jobs ==
                 SelectJobs(jobs, [i \in 1..Len(jobs) |->
                                      Get(jobs[i], "role", None) \notin {None, ""}])
         IN Put(Put(st, "jobs", coherent_jobs),
                "coherence_score", Score(Len(coherent_jobs), Len(jobs)))

check_coherence(st) ==
    LET jobs == Get(st, "jobs", <<>>) IN
    IF jobs = <<>>
    THEN Put(Put(st, "jobs", <<>>), "coherence_score", ZeroScore)
    ELSE LET coherent_jobs == SelectJobs(jobs, [i \in 1..Len(jobs) |-> Coherent(jobs[i])])
         IN Put(Put(st, "jobs", coherent_jobs),
                "coherence_score", Score(Len(coherent_jobs), Len(jobs)))

CoherenceRoute_retry_at_threshold(st) ==
    IF ~Less(DEFAULT_COHERENCE_THRESHOLD, st["coherence_score"])
    THEN "extract_jobs" ELSE "retrieve_links"

\* the conditional edge after check_coherence
CoherenceRoute(st) ==
    IF Less(st["coherence_score"], DEFAULT_COHERENCE_THRESHOLD)
    THEN "extract_jobs" ELSE "retrieve_links"

\* "links" in job
HasLinks_key_present(job) == "links" \in DOMAIN job

\* job.get("links"): a non-empty list
HasLinks(job) == Get(job, "links", <<>>) # <<>>

\* check_rag_score that scores but filters nothing
check_rag_score_keeps_all(st) ==
    LET jobs == Get(st, "jobs", <<>>) IN
    IF jobs = <<>>
    THEN Put(Put(st, "jobs", <<>>), "rag_score", ZeroScore)
    ELSE LET filtered_jobs == SelectJobs(jobs, [i \in 1..Len(jobs) |-> HasLinks(jobs[i])])
         IN Put(st, "rag_score", Score(Len(filtered_jobs), Len(jobs)))

\* check_rag_score that divides by the number of jobs it kept
check_rag_score_wrong_total(st) ==
    LET jobs == Get(st, "jobs", <<>>) IN
    IF jobs = <<>>
    THEN Put(Put(st, "jobs", <<>>), "rag_score", ZeroScore)
    ELSE LET filtered_jobs == SelectJobs(jobs, [i \in 1..Len(jobs) |-> HasLinks(jobs[i])])
         IN Put(Put(st, "jobs", filtered_jobs),
                "rag_score", Score(Len(filtered_jobs), Len(filtered_jobs)))

check_rag_score(st) ==
    LET jobs == Get(st, "jobs", <<>>) IN
    IF jobs = <<>>
    THEN Put(Put(st, "jobs", <<>>), "rag_score", ZeroScore)
    ELSE LET filtered_jobs == SelectJobs(jobs, [i \in 1..Len(jobs) |-> HasLinks(jobs[i])])
         IN Put(Put(st, "jobs", filtered_jobs),
                "rag_score", Score(Len(filtered_jobs), Len(jobs)))

RagRoute_back_to_extraction(st) ==
    IF Less(st["rag_score"], DEFAULT_RAG_SCORE_THRESHOLD)
    THEN "extract_jobs" ELSE "write_mail"

RagRoute_inverted(st) ==
    IF Less(st["rag_score"], DEFAULT_RAG_SCORE_THRESHOLD)
    THEN "write_mail" ELSE "retrieve_links"

\* the conditional edge after check_rag_score
RagRoute(st) ==
    IF Less(st["rag_score"], DEFAULT_RAG_SCORE_THRESHOLD)
    THEN "retrieve_links" ELSE "write_mail"

----------------------------------------------------------------------------
\* The portfolio index

\* The CSV rows (self.data): row i has link i.
Data == [i \in 1..MaxPortfolio |-> [Techstack |-> i, Links |-> i]]

\* The collection after load_portfolio has added every row.
Loaded == [i \in 1..MaxPortfolio |-> [document |-> Data[i].Techstack,
                                       metadata |-> [links |-> Data[i].Links]]]

load_portfolio_unguarded(coll) == coll \o Loaded

\* Portfolio.load_portfolio: one entry per row is added, and only when the
\* collection counts no entry.
load_portfolio(coll) ==
    IF Len(coll) = 0 THEN coll \o Loaded ELSE coll

Nearest_unlimited(coll, text, n) ==
    LET ranked == IF text = "Python" THEN coll ELSE Reverse(coll)
    IN [i \in 1..Len(ranked) |-> ranked[i].metadata]

\* collection.query for one query text: the metadatas of the n_results
\* nearest entries (fewer when the collection holds fewer); which entries
\* are nearest depends on the text.
Nearest(coll, text, n) ==
    LET ranked == IF text = "Python" THEN coll ELSE Reverse(coll)
    IN [i \in 1..Min(n, Len(ranked)) |-> ranked[i].metadata]

\* The collection.query calls Portfolio.query_links(skills) makes, each by its
\* query_texts: none for an empty skills list, one otherwise.
collection_queries_always(skills) == <<skills>>

collection_queries(skills) ==
    IF skills = <<>> THEN <<>> ELSE <<skills>>

\* Portfolio.query_links(skills): query_results.get('metadatas', []), one
\* list of metadatas per query text.
query_links(coll, skills) ==
    LET made == collection_queries(skills) IN
    IF made = <<>> THEN <<>>
    ELSE [i \in 1..Len(made[1]) |-> Nearest(coll, made[1][i], DEFAULT_QUERY_N_RESULTS)]

retrieve_links_appending(st, coll) ==
    LET jobs == Get(st, "jobs", <<>>) IN
    Put(st, "jobs",
        [i \in 1..Len(jobs) |->
            Put(jobs[i], "links",
                Get(jobs[i], "links", <<>>)
                    \o query_links(coll, Get(jobs[i], "skills", <<>>)))])

retrieve_links_jobs_only(st, coll) ==
    LET jobs == Get(st, "jobs", <<>>) IN
    [jobs |-> [i \in 1..Len(jobs) |->
                  Put(jobs[i], "links", query_links(coll, Get(jobs[i], "skills", <<>>)))]]

\* retrieve_links: job["links"] = query_links(job.get("skills", [])) for
\* every job.
retrieve_links(st, coll) ==
    LET jobs == Get(st, "jobs", <<>>) IN
    Put(st, "jobs",
        [i \in 1..Len(jobs) |->
            Put(jobs[i], "links", query_links(coll, Get(jobs[i], "skills", <<>>)))])

retrieve_links_input_untouched(st, coll) == st

\* The state object retrieve_links was given, as it is after the call: the
\* loop assigns job["links"] on the dicts of the list the input state holds.
retrieve_links_input(st, coll) ==
    LET jobs == Get(st, "jobs", <<>>) IN
    IF "jobs" \in DOMAIN st
    THEN Put(st, "jobs",
             [i \in 1..Len(jobs) |->
                 Put(jobs[i], "links", query_links(coll, Get(jobs[i], "skills", <<>>)))])
    ELSE st

----------------------------------------------------------------------------
\* write_mail

\* The model's answer to the email prompt rendered from one job.
Email(job) == [job_description |-> job, link_list |-> Get(job, "links", <<>>)]

write_mail_reversed(st) ==
    LET jobs == Get(st, "jobs", <<>>) IN
    [emails |-> [i \in 1..Len(jobs) |-> Email(jobs[Len(jobs) + 1 - i])]]

write_mail(st) ==
    LET jobs == Get(st, "jobs", <<>>) IN
    [emails |-> [i \in 1..Len(jobs) |-> Email(jobs[i])]]

\* The chain_email.invoke calls of write_mail, each by its input: one per job,
\* in the order of the jobs.
write_mail_calls(st) ==
    LET jobs == Get(st, "jobs", <<>>) IN
    [i \in 1..Len(jobs) |->
        [job_description |-> jobs[i], link_list |-> Get(jobs[i], "links", <<>>)]]

extract_jobs_calls_cached(st) ==
    IF "jobs" \in DOMAIN st THEN <<>> ELSE <<[page_data |-> st["scraped_text"]]>>

\* The chain_extract.invoke call of extract_jobs, by its input.
extract_jobs_calls(st) == <<[page_data |-> st["scraped_text"]]>>


----------------------------------------------------------------------------
\* The run: main.py loads the page, invokes the compiled graph and shows the
\* result; the graph runs one node per step and follows the edges of
\* build_graph.

EmptyDict == [k \in {} |-> None]

\* clean_text(page_content) of the pages that are not empty after cleaning
ScrapedTexts == {"careers page", "job board"}

Nodes == {"extract_jobs", "check_coherence", "retrieve_links", "check_rag_score", "write_mail"}

\* one more visit of node n
Visit(v, n) == [v EXCEPT ![n] = Min(@ + 1, MaxVisits)]

Init ==
    /\ pc = "main"
    /\ state = EmptyDict
    /\ collection \in {<<>>, Loaded}   \* the persisted vectorstore: never loaded, or loaded by an earlier program
    /\ outcome = "none"
    /\ exc = "none"
    /\ last = "none"
    /\ resp = NoResp
    /\ scraped = None
    /\ visits = [n \in Nodes |-> 0]
    /\ calls = <<>>
    /\ queries = <<>>
    /\ input_mutated = FALSE
    /\ loads = 0

MainFetchError_retried ==
    /\ pc = "main"
    /\ pc' = "main"
    /\ outcome' = "network_error"
    /\ UNCHANGED <<state, collection, exc, last, resp, scraped, visits, calls, queries, input_mutated, loads>>

\* main: loader.load() raises RequestException
MainFetchError ==
    /\ pc = "main"
    /\ pc' = "done"
    /\ outcome' = "network_error"
    /\ UNCHANGED <<state, collection, exc, last, resp, scraped, visits, calls, queries, input_mutated, loads>>

\* main: loader.load() returns no document
MainNoDocument ==
    /\ pc = "main"
    /\ pc' = "done"
    /\ outcome' = "load_failed"
    /\ UNCHANGED <<state, collection, exc, last, resp, scraped, visits, calls, queries, input_mutated, loads>>

\* main: the scraped text is empty after cleaning
MainEmptyText ==
    /\ pc = "main"
    /\ pc' = "done"
    /\ outcome' = "empty_text_warning"
    /\ scraped' = ""
    /\ UNCHANGED <<state, collection, exc, last, resp, visits, calls, queries, input_mutated, loads>>

\* main: compiled_graph.invoke({"scraped_text": scraped_text}); the entry
\* point is extract_jobs.
MainInvoke ==
    /\ pc = "main"
    /\ \E text \in ScrapedTexts :
          /\ scraped' = text
          /\ state' = [scraped_text |-> scraped']
    /\ pc' = "extract_jobs"
    /\ UNCHANGED <<collection, outcome, exc, last, resp, visits, calls, queries, input_mutated, loads>>

\* node extract_jobs, the model call returning a response; edge to
\* check_coherence
ExtractJobs ==
    /\ pc = "extract_jobs"
    /\ \E r \in Responses :
         LET res == extract_jobs(state, r) IN
         /\ resp' = Called(r)
         /\ state' = res.state
         /\ exc' = res.raised
         /\ pc' = IF res.raised = "none" THEN "check_coherence" ELSE "raised"
    /\ last' = "extract_jobs"
    /\ visits' = Visit(visits, "extract_jobs")
    /\ calls' = extract_jobs_calls(state)
    /\ queries' = <<>>
    /\ input_mutated' = FALSE
    /\ UNCHANGED <<collection, outcome, scraped, loads>>

ExtractJobsCallFails_default_jobs ==
    /\ pc = "extract_jobs"
    /\ pc' = "check_coherence"
    /\ exc' = "ModelCallError"
    /\ state' = Put(state, "jobs", <<>>)
    /\ last' = "extract_jobs"
    /\ visits' = Visit(visits, "extract_jobs")
    /\ calls' = extract_jobs_calls(state)
    /\ queries' = <<>>
    /\ input_mutated' = FALSE
    /\ resp' = NoResp
    /\ UNCHANGED <<collection, outcome, scraped, loads>>

\* node extract_jobs, chain_extract.invoke raising
ExtractJobsCallFails ==
    /\ pc = "extract_jobs"
    /\ pc' = "raised"
    /\ exc' = "ModelCallError"
    /\ last' = "extract_jobs"
    /\ visits' = Visit(visits, "extract_jobs")
    /\ calls' = extract_jobs_calls(state)
    /\ queries' = <<>>
    /\ input_mutated' = FALSE
    /\ resp' = NoResp
    /\ UNCHANGED <<state, collection, outcome, scraped, loads>>

\* check_coherence with an edge that reads the score the state came in with
CheckCoherence_stale_score ==
    /\ pc = "check_coherence"
    /\ state' = check_coherence(state)
    /\ pc' = IF "coherence_score" \in DOMAIN state
             THEN CoherenceRoute(state) ELSE CoherenceRoute(state')
    /\ last' = "check_coherence"
    /\ visits' = Visit(visits, "check_coherence")
    /\ calls' = <<>>
    /\ queries' = <<>>
    /\ input_mutated' = FALSE
    /\ resp' = NoResp
    /\ UNCHANGED <<collection, outcome, exc, scraped, loads>>

\* node check_coherence and its conditional edge
CheckCoherence ==
    /\ pc = "check_coherence"
    /\ state' = check_coherence(state)
    /\ pc' = CoherenceRoute(state')
    /\ last' = "check_coherence"
    /\ visits' = Visit(visits, "check_coherence")
    /\ calls' = <<>>
    /\ queries' = <<>>
    /\ input_mutated' = FALSE
    /\ resp' = NoResp
    /\ UNCHANGED <<collection, outcome, exc, scraped, loads>>

\* node retrieve_links; edge to check_rag_score
RetrieveLinks ==
    /\ pc = "retrieve_links"
    /\ state' = retrieve_links(state, collection)
    /\ pc' = "check_rag_score"
    /\ last' = "retrieve_links"
    /\ visits' = Visit(visits, "retrieve_links")
    /\ calls' = <<>>
    /\ queries' = [i \in 1..Len(Get(state, "jobs", <<>>)) |->
                      collection_queries(Get(state["jobs"][i], "skills", <<>>))]
    /\ input_mutated' = (retrieve_links_input(state, collection) # state)
    /\ resp' = NoResp
    /\ UNCHANGED <<collection, outcome, exc, scraped, loads>>

\* node retrieve_links, collection.query raising for a job that has skills
RetrieveLinksQueryFails ==
    /\ pc = "retrieve_links"
    /\ \E k \in 1..Len(Get(state, "jobs", <<>>)) :
          /\ Get(state["jobs"][k], "skills", <<>>) # <<>>
          /\ queries' = [i \in 1..k |->
                            collection_queries(Get(state["jobs"][i], "skills", <<>>))]
          /\ input_mutated' =
                \E i \in 1..(k - 1) :
                    retrieve_links_input(state, collection)["jobs"][i] # state["jobs"][i]
    /\ pc' = "raised"
    /\ exc' = "IndexQueryError"
    /\ last' = "retrieve_links"
    /\ resp' = NoResp
    /\ visits' = Visit(visits, "retrieve_links")
    /\ calls' = <<>>
    /\ UNCHANGED <<state, collection, outcome, scraped, loads>>

\* node check_rag_score and its conditional edge
CheckRagScore ==
    /\ pc = "check_rag_score"
    /\ state' = check_rag_score(state)
    /\ pc' = RagRoute(state')
    /\ last' = "check_rag_score"
    /\ visits' = Visit(visits, "check_rag_score")
    /\ calls' = <<>>
    /\ queries' = <<>>
    /\ input_mutated' = FALSE
    /\ resp' = NoResp
    /\ UNCHANGED <<collection, outcome, exc, scraped, loads>>

\* node write_mail; no edge leaves it, so invoke returns its output
WriteMail ==
    /\ pc = "write_mail"
    /\ state' = write_mail(state)
    /\ pc' = "invoke_returned"
    /\ last' = "write_mail"
    /\ visits' = Visit(visits, "write_mail")
    /\ calls' = write_mail_calls(state)
    /\ queries' = <<>>
    /\ input_mutated' = FALSE
    /\ resp' = NoResp
    /\ UNCHANGED <<collection, outcome, exc, scraped, loads>>

\* node write_mail, chain_email.invoke raising for one of the jobs
WriteMailCallFails ==
    /\ pc = "write_mail"
    /\ \E k \in 1..Len(Get(state, "jobs", <<>>)) :
          calls' = SubSeq(write_mail_calls(state), 1, k)
    /\ pc' = "raised"
    /\ exc' = "ModelCallError"
    /\ last' = "write_mail"
    /\ resp' = NoResp
    /\ visits' = Visit(visits, "write_mail")
    /\ queries' = <<>>
    /\ input_mutated' = FALSE
    /\ UNCHANGED <<state, collection, outcome, scraped, loads>>

\* main: result.get("emails", []) is shown, or the warning when it is empty
MainResult ==
    /\ pc = "invoke_returned"
    /\ outcome' = IF Get(state, "emails", <<>>) = <<>>
                  THEN "no_emails_warning" ELSE "emails_shown"
    /\ pc' = "done"
    /\ UNCHANGED <<state, collection, exc, last, resp, scraped, visits, calls, queries, input_mutated, loads>>

\* main: an exception out of invoke is none of RequestException and
\* IndexError, so the general handler reports it
MainExcept ==
    /\ pc = "raised"
    /\ outcome' = "unexpected_error"
    /\ pc' = "done"
    /\ UNCHANGED <<state, collection, exc, last, resp, scraped, visits, calls, queries, input_mutated, loads>>

Next ==
    \/ MainFetchError
    \/ MainNoDocument
    \/ MainEmptyText
    \/ MainInvoke
    \/ ExtractJobs
    \/ ExtractJobsCallFails
    \/ CheckCoherence
    \/ RetrieveLinks
    \/ RetrieveLinksQueryFails
    \/ CheckRagScore
    \/ WriteMail
    \/ WriteMailCallFails
    \/ MainResult
    \/ MainExcept

Spec == Init /\ [][Next]_vars

\* The engine is synchronous: whenever a step can be taken, one is.
FairSpec == Spec /\ WF_vars(Next)

----------------------------------------------------------------------------
\* The portfolio on its own: a Portfolio is constructed over the persisted
\* collection, whatever an earlier process left in it, and load_portfolio is
\* called on it again and again.

Entries == {Loaded[i] : i \in 1..Len(Loaded)}

PersistedCollections == SeqsUpTo(Entries, MaxPortfolio)

LoadInit ==
    /\ pc = "portfolio"
    /\ collection \in PersistedCollections
    /\ state = EmptyDict
    /\ outcome = "none"
    /\ exc = "none"
    /\ last = "none"
    /\ resp = NoResp
    /\ scraped = None
    /\ visits = [n \in Nodes |-> 0]
    /\ calls = <<>>
    /\ queries = <<>>
    /\ input_mutated = FALSE
    /\ loads = 0

LoadPortfolio ==
    /\ pc = "portfolio"
    /\ loads < MaxLoads
    /\ collection' = load_portfolio(collection)
    /\ loads' = loads + 1
    /\ UNCHANGED <<pc, state, outcome, exc, last, resp, scraped, visits, calls,
                   queries, input_mutated>>

LoadNext == LoadPortfolio

LoadSpec == LoadInit /\ [][LoadNext]_vars


----------------------------------------------------------------------------
\* Vocabulary of the properties

Jobs(st) == Get(st, "jobs", <<>>)

\* the number of positions of s that satisfy the flags
Count(flags) == Cardinality({i \in DOMAIN flags : flags[i]})

HasRoleAndDescription(job) ==
    /\ "role" \in DOMAIN job /\ job["role"] # None /\ job["role"] # ""
    /\ "description" \in DOMAIN job /\ job["description"] # None /\ job["description"] # ""

\* the job holds at least one portfolio link
HasSomeLink(job) ==
    /\ "links" \in DOMAIN job
    /\ \E i \in 1..Len(job["links"]) : job["links"][i] # <<>>

InUnitInterval(sc) == sc.den > 0 /\ 0 <= sc.num /\ sc.num <= sc.den

Ended == pc = "done"

\* the run ended in something other than emails: a failure outcome
EndedInFailure == pc = "done" /\ outcome \notin {"none", "emails_shown"}

\* the relevance gate has just routed back: rag_score was below the threshold
RelevanceRejected == last = "check_rag_score" /\ pc = "retrieve_links"

\* the response is a JSON list of objects, some valid and some malformed
MixedObjects(r) ==
    /\ r.called /\ r.parse_ok /\ r.is_list
    /\ \A i \in 1..Len(r.items) : r.items[i].kind = "object"
    /\ \E i \in 1..Len(r.items) : ValidJob(r.items[i])
    /\ \E i \in 1..Len(r.items) : ~ValidJob(r.items[i])

ValidRecords(items) ==
    SelectJobs([i \in 1..Len(items) |-> JobPosting(items[i])],
               [i \in 1..Len(items) |-> ValidJob(items[i])])

----------------------------------------------------------------------------
\* C1: if every extraction attempt returns jobs that all fail the coherence
\* test, the run ends in a failure outcome after finitely many returns from
\* check_coherence to extract_jobs.
C1_ExtractionRetriesEnd ==
    ( /\ <>(pc = "check_coherence")
      /\ [](pc = "check_coherence" =>
              /\ Jobs(state) # <<>>
              /\ \A i \in 1..Len(Jobs(state)) : ~Coherent(Jobs(state)[i])) )
    => <>EndedInFailure

\* C2: if rag_score is below the threshold on every relevance check, the run
\* ends in a failure outcome after finitely many returns from check_rag_score
\* to retrieve_links.
C2_RetrievalRetriesEnd ==
    ( /\ <>(last = "check_rag_score")
      /\ [](last = "check_rag_score" => RelevanceRejected) )
    => <>EndedInFailure

\* C3: a run in which a gate runs and no gate is ever satisfied ends with a
\* result of its own, which is neither the emails nor the "no emails" result
\* of a page without jobs.
C3_NonConvergenceReported ==
    ( /\ <>(last \in {"check_coherence", "check_rag_score"})
      /\ [](pc # "write_mail") )
    => <>(Ended /\ outcome \notin {"none", "emails_shown", "no_emails_warning"})


\* C4 (as claimed): from a list of objects, some valid and some malformed,
\* extract_jobs keeps exactly the valid ones, in their order.
C4_ValidObjectsKept ==
    (last = "extract_jobs" /\ MixedObjects(resp))
        => (pc = "check_coherence" /\ Jobs(state) = ValidRecords(resp.items))

\* C4 (amended): from a list of objects, extract_jobs keeps all of them, in
\* their order, when every one is valid, and none of them when pydantic
\* rejects one.
C4_AllOrNothing ==
    ( /\ last = "extract_jobs" /\ resp.called /\ resp.parse_ok /\ resp.is_list
      /\ \A i \in 1..Len(resp.items) : resp.items[i].kind = "object" )
    => /\ pc = "check_coherence"
       /\ "jobs" \in DOMAIN state
       /\ state["jobs"] =
            IF \A i \in 1..Len(resp.items) : ValidJob(resp.items[i])
            THEN [i \in 1..Len(resp.items) |-> JobPosting(resp.items[i])]
            ELSE <<>>

C4_Witness ==
    /\ last = "extract_jobs" /\ MixedObjects(resp)
    /\ ValidJob(resp.items[1])
    /\ pc = "check_coherence" /\ Jobs(state) = <<>>

\* C5: whatever text the model returns, extract_jobs returns (it does not
\* raise) with jobs empty or the valid records, and check_coherence is next.
C5_ExtractNeverRaises ==
    (last = "extract_jobs" /\ resp.called)
        => /\ exc = "none"
           /\ pc = "check_coherence"
           /\ Jobs(state) \in {<<>>, ValidRecords(resp.items)}

\* C6: once a gate has run its score lies in [0,1]; each gate scores 0.0 on
\* an empty job sequence and kept/total on any other, kept being the number
\* of jobs it returns.
ScoresInRange ==
    /\ "coherence_score" \in DOMAIN state => InUnitInterval(state["coherence_score"])
    /\ "rag_score" \in DOMAIN state => InUnitInterval(state["rag_score"])

GateScore(given, returned, sc) ==
    /\ given = <<>> => sc = ZeroScore
    /\ given # <<>> => sc = [num |-> Len(returned), den |-> Len(given)]
    /\ Len(returned) <= Len(given)

GateScoreStep ==
    /\ pc = "check_coherence" =>
          GateScore(Jobs(state), Jobs(state'), state'["coherence_score"])
    /\ pc = "check_rag_score" =>
          GateScore(Jobs(state), Jobs(state'), state'["rag_score"])

C6_ScoresAreFractions == []ScoresInRange /\ [][GateScoreStep]_vars

C6_Witness ==
    /\ last = "check_rag_score"
    /\ state["coherence_score"] = [num |-> 2, den |-> 2]
    /\ state["rag_score"] = [num |-> 1, den |-> 2]

\* C7: every job check_coherence returns has a non-empty role and a
\* non-empty description.
C7_CoherentJobsOnly ==
    last = "check_coherence" =>
        \A i \in 1..Len(Jobs(state)) : HasRoleAndDescription(Jobs(state)[i])

C7_Witness ==
    /\ last = "check_coherence"
    /\ Len(Jobs(state)) = 4
    /\ state["coherence_score"] = [num |-> 4, den |-> 5]

\* C8: whenever retrieve_links is about to run, after the coherence gate or
\* after a loop back from the relevance gate, every job has a role and a
\* description.
C8_RetrieverSeesCoherentJobs ==
    pc = "retrieve_links" =>
        \A i \in 1..Len(Jobs(state)) : HasRoleAndDescription(Jobs(state)[i])

C8_Witness ==
    /\ pc = "retrieve_links"
    /\ last = "check_rag_score"
    /\ Len(Jobs(state)) = 2

C10_ScoreCountsLinkedJobs ==
    [][ (pc = "check_rag_score" /\ Jobs(state) # <<>>) =>
           LET jobs == Jobs(state)
               linked == [i \in 1..Len(jobs) |-> HasSomeLink(jobs[i])]
           IN /\ state'["rag_score"] = [num |-> Count(linked), den |-> Len(jobs)]
              /\ Jobs(state') = SelectJobs(jobs, linked) ]_vars


----------------------------------------------------------------------------
\* Link retrieval, email composition and the result of the run

\* C11: for a job whose skills list is empty, retrieve_links sets links to
\* the empty list and makes no collection.query call for that job.
C11_NoQueryForEmptySkills ==
    last = "retrieve_links" =>
        \A i \in 1..Len(queries) :
            Get(Jobs(state)[i], "skills", <<>>) = <<>> =>
                /\ queries[i] = <<>>
                /\ pc = "check_rag_score" => Jobs(state)[i]["links"] = <<>>

C11_Witness ==
    /\ last = "retrieve_links"
    /\ pc = "check_rag_score"
    /\ \E i, j \in 1..Len(queries) :
          /\ Get(Jobs(state)[i], "skills", <<>>) = <<>>
          /\ Jobs(state)[i]["links"] = <<>>
          /\ queries[j] # <<>>

\* the response is one job object with role, experience, skills and
\* description all present, alone or as a list of one
OneFullyValidJob(r) ==
    /\ r.called /\ r.parse_ok /\ Len(r.items) = 1
    /\ r.items[1].kind = "object"
    /\ r.items[1].role \notin {Missing, BadType, ""}
    /\ r.items[1].experience \notin {Missing, BadType, ""}
    /\ r.items[1].description \notin {Missing, BadType, ""}
    /\ r.items[1].has_skills /\ r.items[1].skills # <<>>

\* every job of the state holds a non-empty link list
AllLinked(st) ==
    \A i \in 1..Len(Jobs(st)) : Get(Jobs(st)[i], "links", <<>>) # <<>>

\* a gate has just routed back to the stage before it
LoopbackTaken ==
    \/ last = "check_coherence" /\ pc = "extract_jobs"
    \/ last = "check_rag_score" /\ pc = "retrieve_links"

\* the run has ended with emails, every stage having run exactly once
DoneInOnePass ==
    /\ pc = "done" /\ outcome = "emails_shown"
    /\ \A n \in Nodes : visits[n] = 1

\* C12: when every extraction returns one fully valid job, every link
\* retrieval returns a non-empty list and no call raises, the run visits each
\* of the five stages exactly once, takes no loopback edge and reaches the end
\* with emails.
C12_OnePassWhenAllValid ==
    ( /\ [](exc = "none")
      /\ [](last = "extract_jobs" => OneFullyValidJob(resp))
      /\ [](last = "retrieve_links" => AllLinked(state)) )
    => ( /\ [](\A n \in Nodes : visits[n] <= 1)
         /\ [](~LoopbackTaken)
         /\ (pc = "extract_jobs" ~> DoneInOnePass) )

C12_Witness ==
    /\ DoneInOnePass
    /\ Len(Get(state, "emails", <<>>)) = 1

\* C13: write_mail makes exactly one model call per job of the state it is
\* given, in job order, and returns as many emails as there are jobs, the
\* i-th email being the answer to the prompt rendered from the i-th job.
C13_OneEmailPerJob ==
    [][ (pc = "write_mail" /\ pc' = "invoke_returned") =>
           LET jobs == Jobs(state)
               emails == state'["emails"]
           IN /\ Len(emails) = Len(jobs)
              /\ Len(calls') = Len(jobs)
              /\ \A i \in 1..Len(jobs) :
                    /\ calls'[i].job_description = jobs[i]
                    /\ calls'[i].link_list = Get(jobs[i], "links", <<>>)
                    /\ emails[i] = Email(jobs[i]) ]_vars

C13_Witness ==
    /\ last = "write_mail"
    /\ pc = "invoke_returned"
    /\ Len(calls) = 2
    /\ Len(state["emails"]) = 2
    /\ state["emails"][1] # state["emails"][2]

\* C14: the state the graph hands back to main after composing holds both
\* the emails and the jobs they were written from, of equal length and with
\* the i-th email written from the i-th job.
C14_ResultHoldsJobsAndEmails ==
    pc = "invoke_returned" =>
        /\ "emails" \in DOMAIN state
        /\ "jobs" \in DOMAIN state
        /\ Len(state["jobs"]) = Len(state["emails"])
        /\ \A i \in 1..Len(state["emails"]) :
              state["emails"][i].job_description = state["jobs"][i]

\* the model answered with the empty JSON list
EmptyJobList(r) == r.called /\ r.parse_ok /\ r.is_list /\ r.items = <<>>

\* the run ended by reporting that there is nothing to show: no text on the
\* page, or no email written
EndedEmpty ==
    /\ pc = "done"
    /\ outcome \in {"empty_text_warning", "no_emails_warning"}
    /\ Get(state, "emails", <<>>) = <<>>

\* C15: a run whose input yields no job, the page text being empty or the
\* model answering every extraction with an empty list, ends by reporting an
\* empty result, not in an error and not retrying forever.
C15_NoJobsEndsEmpty ==
    /\ [](scraped = "" => <>EndedEmpty)
    /\ ( ( [](exc = "none") /\ [](last = "extract_jobs" => EmptyJobList(resp)) )
          => (pc = "extract_jobs" ~> EndedEmpty) )

----------------------------------------------------------------------------
\* The transition table

\* the score is below 0.8
BelowEightTenths(sc) == 10 * sc.num < 8 * sc.den

\* one step of the run follows the table; a stage that raises leaves it
TableStep ==
    /\ (pc = "extract_jobs" /\ exc' = "none") => pc' = "check_coherence"
    /\ pc = "check_coherence" =>
          pc' = IF BelowEightTenths(state'["coherence_score"])
                THEN "extract_jobs" ELSE "retrieve_links"
    /\ (pc = "retrieve_links" /\ exc' = "none") => pc' = "check_rag_score"
    /\ pc = "check_rag_score" =>
          pc' = IF BelowEightTenths(state'["rag_score"])
                THEN "retrieve_links" ELSE "write_mail"
    /\ (pc = "write_mail" /\ exc' = "none") => pc' = "invoke_returned"
    /\ pc \in {"invoke_returned", "raised", "done"} =>
          /\ pc' = "done"
          /\ last' = last /\ visits' = visits /\ state' = state

\* C16: the run moves only along the edges of the transition table:
\* extraction to the coherence gate; the coherence gate back to extraction
\* exactly when coherence_score < 0.8 and on to link retrieval otherwise, a
\* score of exactly 0.8 included; link retrieval to the relevance gate; the
\* relevance gate back to link retrieval exactly when rag_score < 0.8 and on to
\* composing otherwise; composing to the end; and no stage runs after the end.
C16_TransitionTable == [][TableStep]_vars

C16_Witness ==
    /\ last = "check_coherence"
    /\ state["coherence_score"] = [num |-> 4, den |-> 5]
    /\ pc = "retrieve_links"

----------------------------------------------------------------------------
\* The state objects the stages are given

\* C18 as claimed: no stage changes the state object it was given, the job
\* records inside it included; retrieve_links adds no links field to them.
C18_InputNeverMutated ==
    last \in Nodes => ~input_mutated

\* C18 as the code has it: extract_jobs, check_coherence, check_rag_score and
\* write_mail leave the state object they were given unchanged; retrieve_links
\* returns a new state object but writes links into the job records of the
\* state it was given, so that these records change exactly as the returned
\* ones do.
C18_OnlyRetrieveLinksMutates ==
    [][ /\ (pc \in Nodes \ {"retrieve_links"}) => ~input_mutated'
        /\ (pc = "retrieve_links" /\ exc' = "none") =>
              /\ input_mutated' = (Jobs(state') # Jobs(state))
              /\ \A k \in DOMAIN state \ {"jobs"} : state'[k] = state[k] ]_vars

C18_Witness ==
    /\ last = "retrieve_links"
    /\ pc = "check_rag_score"
    /\ input_mutated
    /\ \E i \in 1..Len(Jobs(state)) : Jobs(state)[i]["links"] # <<>>

\* C19: no stage before composing changes scraped_text: until write_mail
\* has run the state holds the text main passed in, and every run of
\* extract_jobs, the first and each retry, renders its prompt from that text.
C19_ScrapedTextKept ==
    /\ pc \in Nodes =>
          "scraped_text" \in DOMAIN state /\ state["scraped_text"] = scraped
    /\ last = "extract_jobs" =>
          calls = <<[page_data |-> scraped]>>

C19_Witness ==
    /\ last = "extract_jobs"
    /\ visits["extract_jobs"] = 2
    /\ visits["retrieve_links"] = 0
    /\ scraped = "job board"
    /\ calls = <<[page_data |-> "job board"]>>

----------------------------------------------------------------------------
\* Calls that raise

\* a model call or an index query has raised
CallFailed == exc \in {"ModelCallError", "IndexQueryError"}

\* C20: when the model call of extract_jobs or of write_mail, or the index
\* query of retrieve_links, raises, the run ends as a failure: the stage
\* returns no state (nothing is put in place of the failed call's result), no
\* stage runs afterwards, no email is held or shown, and main reports an error.
C20_CallFailureEndsRun ==
    /\ [][ (~CallFailed /\ CallFailed') =>
              /\ pc \in {"extract_jobs", "retrieve_links", "write_mail"}
              /\ pc' = "raised"
              /\ state' = state ]_vars
    /\ [][ CallFailed =>
              /\ pc = "raised" /\ pc' = "done"
              /\ outcome' = "unexpected_error"
              /\ visits' = visits /\ last' = last /\ state' = state ]_vars
    /\ [](CallFailed =>
              /\ pc \in {"raised", "done"}
              /\ "emails" \notin DOMAIN state
              /\ outcome \in {"none", "unexpected_error"})

C20_Witness ==
    /\ pc = "done"
    /\ exc = "IndexQueryError"
    /\ outcome = "unexpected_error"
    /\ last = "retrieve_links"
    /\ Len(Jobs(state)) = 2
    /\ \E i \in 1..2 : "links" \notin DOMAIN Jobs(state)[i]

----------------------------------------------------------------------------
\* The page load

\* no stage has run and no model call or index query has been made
NothingRan ==
    /\ \A n \in Nodes : visits[n] = 0
    /\ last = "none" /\ calls = <<>> /\ queries = <<>> /\ ~resp.called
    /\ state = EmptyDict

\* C21: when loading the page fails with a network error the error is
\* reported and the run is over: the page is not loaded again and no stage
\* runs, so no extraction model call is made.
C21_FetchFailureEndsRun ==
    /\ [](outcome = "network_error" => pc = "done" /\ NothingRan)
    /\ [][ outcome = "network_error" => FALSE ]_vars
    /\ [][ pc # "main" => pc' # "main" ]_vars

C21_Witness ==
    /\ outcome = "network_error"
    /\ pc = "done"
    /\ NothingRan

----------------------------------------------------------------------------
\* Model calls and retries

\* C22: every execution of extract_jobs, the first and each one after the
\* coherence gate routed back, makes exactly one model call and takes its jobs
\* from that call's answer; extract_jobs is entered only from main or from the
\* coherence gate, and no other stage makes an extraction call.
C22_OneCallPerExtraction ==
    /\ [][ pc = "extract_jobs" =>
              /\ last' = "extract_jobs"
              /\ visits'["extract_jobs"] = Min(visits["extract_jobs"] + 1, MaxVisits)
              /\ Len(calls') = 1 /\ DOMAIN calls'[1] = {"page_data"}
              /\ resp'.called \/ exc' = "ModelCallError" ]_vars
    /\ [][ pc # "extract_jobs" =>
              /\ visits'["extract_jobs"] = visits["extract_jobs"]
              /\ \/ calls' = calls
                 \/ \A i \in 1..Len(calls') : DOMAIN calls'[i] # {"page_data"} ]_vars
    /\ [][ (pc' = "extract_jobs" /\ pc # "extract_jobs") =>
              pc \in {"main", "check_coherence"} ]_vars

C22_Witness ==
    /\ last = "extract_jobs"
    /\ pc = "check_coherence"
    /\ visits["extract_jobs"] = 2
    /\ Len(calls) = 1
    /\ resp.called

----------------------------------------------------------------------------
\* Link retrieval as a function of the state

\* C23: retrieve_links is idempotent over an index that answers the same
\* query the same way: run again on the state it has just returned, it
\* returns that state, each job's links being overwritten and not extended.
C23_RetrieveLinksIdempotent ==
    [][ (pc = "retrieve_links" /\ exc' = "none") =>
           retrieve_links(state', collection') = state' ]_vars

C23_Witness ==
    /\ last = "retrieve_links"
    /\ pc = "check_rag_score"
    /\ collection = Loaded
    /\ Len(Jobs(state)) = 2
    /\ \A i \in 1..2 : Len(Jobs(state)[i]["links"]) > 0
    /\ retrieve_links(state, collection) = state

\* the metadatas held by the collection
Metadatas(coll) == {coll[i].metadata : i \in 1..Len(coll)}

\* links is an answer of the index to the skills: nothing for no skills, and
\* otherwise for each skill the 2 nearest entries, or all when there are fewer
AnswerFor(links, skills, coll) ==
    /\ Len(links) = Len(skills)
    /\ \A j \in 1..Len(links) :
          /\ Len(links[j]) = Min(2, Len(coll))
          /\ \A m \in 1..Len(links[j]) : links[j][m] \in Metadatas(coll)
          /\ \A m, n \in 1..Len(links[j]) : m # n => links[j][m] # links[j][n]

\* C24: retrieve_links changes nothing but the links field of each job: the
\* jobs are as many and in the same order, their other fields are the same,
\* the other keys of the state (scraped_text, coherence_score) are the same,
\* and afterwards every job has a links field, the answer of the index to that
\* job's own skills with 2 results asked for.
C24_RetrieveLinksFrame ==
    [][ (pc = "retrieve_links" /\ exc' = "none") =>
           /\ DOMAIN state' = DOMAIN state \cup {"jobs"}
           /\ \A k \in DOMAIN state \ {"jobs"} : state'[k] = state[k]
           /\ Len(Jobs(state')) = Len(Jobs(state))
           /\ collection' = collection
           /\ \A i \in 1..Len(Jobs(state)) :
                 LET old == Jobs(state)[i]
                     new == Jobs(state')[i]
                 IN /\ DOMAIN new = DOMAIN old \cup {"links"}
                    /\ \A k \in DOMAIN old \ {"links"} : new[k] = old[k]
                    /\ AnswerFor(new["links"], old["skills"], collection)
                    /\ queries'[i] = IF old["skills"] = <<>> THEN <<>>
                                      ELSE <<old["skills"]>> ]_vars

C24_Witness ==
    /\ last = "retrieve_links"
    /\ pc = "check_rag_score"
    /\ collection = Loaded
    /\ "coherence_score" \in DOMAIN state /\ "scraped_text" \in DOMAIN state
    /\ \E i \in 1..Len(Jobs(state)) :
          /\ Len(Jobs(state)[i]["skills"]) = 2
          /\ Len(Jobs(state)[i]["links"]) = 2
          /\ Len(Jobs(state)[i]["links"][1]) = 2

----------------------------------------------------------------------------
\* The portfolio collection

\* the collection holds exactly one entry for each row of the CSV
OneEntryPerRow(coll) ==
    /\ Len(coll) = Len(Data)
    /\ \A i \in 1..Len(Data) :
          Cardinality({j \in 1..Len(coll) :
              coll[j] = [document |-> Data[i].Techstack,
                         metadata |-> [links |-> Data[i].Links]]}) = 1

\* C25: load_portfolio adds the rows only to an empty collection: a call on
\* a non-empty collection leaves it unchanged, and a collection that was empty
\* holds, after one call or more, exactly one entry per CSV row.
C25_LoadOnlyWhenEmpty ==
    /\ [][ collection # <<>> => collection' = collection ]_vars
    /\ (collection = <<>>) => [](loads >= 1 => OneEntryPerRow(collection))

C25_Witness ==
    /\ loads = MaxLoads
    /\ OneEntryPerRow(collection)

----------------------------------------------------------------------------
\* The relevance loop

\* some job of the state holds a non-empty links value
SomeLinked(st) ==
    \E i \in 1..Len(Jobs(st)) : Get(Jobs(st)[i], "links", <<>>) # <<>>

\* the first link retrieval of the run has returned, with links for some job
FirstRetrievalFoundLinks ==
    /\ last = "retrieve_links" /\ pc = "check_rag_score"
    /\ visits["retrieve_links"] = 1
    /\ SomeLinked(state)

\* C26: when some job has non-empty links after the first retrieval, the
\* relevance gate keeps that job; every relevance check after the first that
\* still has jobs scores 1.0 and goes on to composing, so the run takes at
\* most one loopback from the relevance gate and, no call raising, reaches
\* composing.
C26_OneLoopbackWhenLinked ==
    /\ [][ (pc = "check_rag_score" /\ SomeLinked(state)) =>
              Jobs(state') # <<>> ]_vars
    /\ [][ (pc = "check_rag_score" /\ visits["check_rag_score"] >= 1
               /\ Jobs(state) # <<>>) =>
              /\ state'["rag_score"].num = state'["rag_score"].den
              /\ pc' = "write_mail" ]_vars
    /\ ( [](exc = "none") => (FirstRetrievalFoundLinks ~> pc = "write_mail") )

C26_Witness ==
    /\ pc = "write_mail"
    /\ last = "check_rag_score"
    /\ visits["retrieve_links"] = 2
    /\ visits["check_rag_score"] = 2
    /\ Jobs(state) # <<>>

\* the coherence gate has been passed
PastCoherenceGate ==
    pc \in {"retrieve_links", "check_rag_score", "write_mail", "invoke_returned"}

\* the relevance gate has left no job in the state
RelevanceEmptied ==
    /\ pc \in {"retrieve_links", "check_rag_score"}
    /\ "rag_score" \in DOMAIN state
    /\ Jobs(state) = <<>>

\* C27: once past the coherence gate the run never goes back to extraction;
\* and once the relevance gate has left no job, the run stays between link
\* retrieval and the relevance gate with no job, every relevance check scoring
\* 0.0, so composing is never reached from there.
C27_NoWayBackToExtraction ==
    /\ [][ PastCoherenceGate => pc' # "extract_jobs" ]_vars
    /\ [][ RelevanceEmptied =>
              /\ RelevanceEmptied'
              /\ exc' = "none"
              /\ pc = "check_rag_score" => state'["rag_score"] = ZeroScore ]_vars

C27_Witness ==
    /\ RelevanceEmptied
    /\ pc = "retrieve_links"
    /\ visits["check_rag_score"] = 2
    /\ state["rag_score"] = ZeroScore

----------------------------------------------------------------------------
\* The jobs from one stage to the next

\* sub is s with some elements left out: the same records in the same order
RECURSIVE IsSubsequence(_, _)
IsSubsequence(sub, s) ==
    IF sub = <<>> THEN TRUE
    ELSE IF s = <<>> THEN FALSE
    ELSE IF Head(sub) = Head(s) THEN IsSubsequence(Tail(sub), Tail(s))
    ELSE IsSubsequence(sub, Tail(s))

\* C28: both gates only filter: the jobs check_coherence and check_rag_score
\* return are a subsequence of the jobs they were given, the same records in
\* the same order; and from extraction to composing the number of jobs never
\* grows.
C28_GatesOnlyFilter ==
    /\ [][ (pc \in {"check_coherence", "check_rag_score"}) =>
              IsSubsequence(Jobs(state'), Jobs(state)) ]_vars
    /\ [][ (pc \in {"check_coherence", "retrieve_links", "check_rag_score"}) =>
              Len(Jobs(state)) >= Len(Jobs(state')) ]_vars

C28_Witness ==
    /\ last = "check_coherence"
    /\ pc = "extract_jobs"
    /\ Len(Jobs(state)) = 3
    /\ state["coherence_score"] = [num |-> 3, den |-> 5]

\* the jobs a model response stands for, by itself: its postings when it
\* parses and every element is valid, and none otherwise
JobsOfResponse(r) ==
    IF r.parse_ok /\ \A i \in 1..Len(r.items) : ValidJob(r.items[i])
    THEN [i \in 1..Len(r.items) |-> JobPosting(r.items[i])]
    ELSE <<>>

\* C29: on every extraction, the retries included, the jobs of the new
\* attempt replace state.jobs: the jobs the coherence gate kept from an
\* earlier attempt are not merged with them, and state.jobs after extract_jobs
\* depends on the latest model response alone.
C29_RetryReplacesJobs ==
    [][ (pc = "extract_jobs" /\ exc' = "none") =>
           /\ Jobs(state') = JobsOfResponse(resp')
           /\ \A k \in DOMAIN state \ {"jobs"} : state'[k] = state[k] ]_vars

C29_Witness ==
    /\ last = "extract_jobs"
    /\ exc = "none"
    /\ visits["extract_jobs"] = 2
    /\ "coherence_score" \in DOMAIN state
    /\ state["coherence_score"] = [num |-> 1, den |-> 2]
    /\ Len(Jobs(state)) = 2

----------------------------------------------------------------------------
\* The scores the edges read

\* the score a gate gives when it keeps kept of total jobs
FreshScore(kept, total) ==
    IF total = 0 THEN [num |-> 0, den |-> 1] ELSE [num |-> kept, den |-> total]

\* a gate's step: the score under key is the one of this execution, and the
\* edge goes back exactly when that score is below 0.8
DecidesOnFreshScore(key, back) ==
    LET total == Len(Jobs(state))
        kept == Len(Jobs(state'))
    IN /\ key \in DOMAIN state'
       /\ state'[key] = FreshScore(kept, total)
       /\ (pc' = back) = (total = 0 \/ 10 * kept < 8 * total)

\* C30: every routing decision is taken on the score the gate that has just
\* run wrote: the edge after check_coherence on the coherence_score of this
\* execution, the edge after check_rag_score on the rag_score of this
\* execution, never on a score left from an earlier pass or on a missing one,
\* although the graph is entered with a state that holds scraped_text alone;
\* no other stage writes a score.
C30_RoutesOnFreshScores ==
    /\ [][ (pc = "main" /\ pc' = "extract_jobs") =>
              DOMAIN state' = {"scraped_text"} ]_vars
    /\ [][ pc = "check_coherence" =>
              DecidesOnFreshScore("coherence_score", "extract_jobs") ]_vars
    /\ [][ pc = "check_rag_score" =>
              DecidesOnFreshScore("rag_score", "retrieve_links") ]_vars
    /\ [][ (pc \notin {"check_coherence", "check_rag_score"}) =>
              \A key \in {"coherence_score", "rag_score"} :
                  key \in DOMAIN state' =>
                      key \in DOMAIN state /\ state'[key] = state[key] ]_vars

C30_Witness ==
    /\ last = "check_coherence"
    /\ pc = "retrieve_links"
    /\ visits["check_coherence"] = 2
    /\ state["coherence_score"] = [num |-> 2, den |-> 2]

----------------------------------------------------------------------------
\* The collection the graph queries

\* load_portfolio has run on the collection, in this process or in an
\* earlier one that left its entries in the persisted store
PortfolioLoaded == loads >= 1 \/ collection # <<>>

\* C31: in the graph workflow the collection has been populated by
\* load_portfolio before retrieve_links issues its first query, so no query is
\* answered from a collection that was never loaded.
C31_LoadedBeforeFirstQuery ==
    (last = "retrieve_links" /\ \E i \in 1..Len(queries) : queries[i] # <<>>)
        => PortfolioLoaded

====
